---- MODULE Spec2Model ----
(***************************************************************************)
(* The shared animation-loop scheduler of the cabinet                       *)
(* (src/hooks/useAnimationLoop.ts) as a state machine.                      *)
(*                                                                         *)
(* Time is counted in units of 2/3 ms, so that 1000/30 ms = 50 units,       *)
(* 1000/60 ms = 25 units and 16 ms = 24 units are all whole numbers and     *)
(* the arithmetic of loop() (a subtraction and a remainder) is exact.       *)
(*                                                                         *)
(* A Loop Handle is one run of the hook's effect (one closure over animId,  *)
(* lastTime, docHidden, tgInactive).  A hook instance owns a sequence of     *)
(* handles: a new one at mount and after every dependency change.           *)
(***************************************************************************)
EXTENDS Integers, FiniteSets, Sequences

\* ------------------------------------------------------------- bounds
MaxHandles == 2      \* effect runs (Loop Handles) created in one behaviour
MaxTime == 120       \* the clock stops advancing here (units of 2/3 ms)
MaxRafId == 6        \* requestAnimationFrame ids handed out in one behaviour
ClockStep == 24      \* one fine advance of performance.now() (24 units = 16 ms)
MaxTicks16 == 60     \* frames of the 16 ms scenario
MaxReqs == 2         \* requests sent through apiClient
MaxRefreshes == 2    \* token refreshes one request may trigger
MaxWallSub == 31000  \* Date.now() reached on the Subscription page, ms
MaxAutoRefreshes == 1  \* auto-refreshes after which the subscription is not refetched
MaxWallLogin == 3960000  \* Date.now() reached on the Login page, ms

Handles == 1..MaxHandles
Hooks == {1, 2}
SoloHooks == {1}
None == <<>>
Reqs == 1..MaxReqs
\* localStorage.getItem of a missing item; a null field
Null == "null"
\* access tokens the server issues
Tokens == {"tokenA", "tokenB"}
\* response statuses; NoResponse: the request failed without a response
NoResponse == 0
Statuses == {NoResponse, 200, 401, 500}

\* n milliseconds in units of 2/3 ms
Ms(n) == (n * 3) \div 2
\* the frame timestamp may be behind performance.now() by this much
FrameLags == {0, Ms(2)}
NoLag == {0}
TickPeriod == Ms(16)
\* a coarse advance of the clock: longer than either frame interval
CoarseStep == Ms(40)

VARIABLES
  isMobile,        \* module constant isMobile (window.innerWidth < 768)
  documentHidden,  \* document.hidden
  tgApi,           \* window.Telegram?.WebApp: "absent", "noEvents" (no onEvent/offEvent), "full"
  tgIsActive,      \* the host has not signalled deactivation (Source B)
  now,             \* performance.now()
  frameTime,       \* timestamp of the last frame the platform ran
  rafQueue,        \* outstanding requestAnimationFrame registrations [id, h]
  nextRafId,       \* the id the next requestAnimationFrame returns
  docListeners,    \* handles whose onVisibilityChange is on document
  tgActivatedL,    \* handles whose onTgActivated is registered
  tgDeactivatedL,  \* handles whose onTgDeactivated is registered
  phase,           \* per handle: "unborn", "live", "disposed"
  hook,            \* per handle: the hook instance that created it (0: unborn)
  animId,          \* per handle: closure variable animId
  lastTime,        \* per handle: closure variable lastTime
  docHidden,       \* per handle: closure variable docHidden
  tgInactive,      \* per handle: closure variable tgInactive
  fired,           \* per handle: <<time, delta>> of the callback call made in the last step
  lastCall,        \* per handle: tick time of the most recent callback call (-1: none)
  startedAt,       \* per handle: performance.now() at the last start() that registered
  calls,           \* per handle: callback calls since that start()
  lastOp,          \* the operation of the last step
  threw,           \* handles whose callback raised in the last step
  pausePhase,      \* useAnimationPause: "unmounted", "rendered", "live", "disposed"
  paused,          \* useAnimationPause: the state it returns
  pDocHidden,      \* useAnimationPause: closure variable docHidden
  pTgInactive,     \* useAnimationPause: closure variable tgInactive
  pauseListeners,  \* useAnimationPause: the events its handlers are registered for
  boxPhase,        \* BackgroundBoxes: "unmounted", "live", or "inert" (no canvas)
  boxAnimId,       \* BackgroundBoxes: closure variable animId
  boxQueue,        \* ids of the frame requests made by BackgroundBoxes
  boxResizeL,      \* BackgroundBoxes: its resize listener is registered
  boxDrew,         \* BackgroundBoxes: draw ran in the last step
  lsAccess,        \* localStorage 'access_token' (Null: no such item)
  lsRefresh,       \* localStorage 'refresh_token'
  lsUser,          \* localStorage 'user'
  location,        \* window.location.href: "app" or "/login"
  reqPc,           \* per request: "idle", "sent", "refreshing", "resolved", "rejected"
  retry,           \* per request: originalRequest._retry
  reqAuth,         \* per request: the token of its Authorization header
  lastStatus,      \* per request: status of its last response (0: none)
  refreshes,       \* per request: token refreshes its 401s have triggered
  replays,         \* per request: times it was sent again
  refreshTok,      \* per request: access_token its last refresh returned
  rejection,       \* per request: "none", "error" or "refreshError"
  accessToken,     \* auth store: accessToken
  refreshToken,    \* auth store: refreshToken
  user,            \* auth store: user
  isAuthenticated, \* auth store: isAuthenticated
  isLoading,       \* auth store: isLoading
  isAdmin,         \* auth store: isAdmin
  initPc,          \* initialize(): "idle", "getMe", "refresh", "getMeAgain", "done"
  initAccess,      \* initialize(): its accessToken; after a refresh, response.access_token
  initRefresh,     \* initialize(): its refreshToken
  initCalls,       \* network calls the current initialize() has made
  initGetMeOk,     \* a getMe call of the current initialize() succeeded
  adminChecks,     \* checkAdminStatus() calls awaiting their response (0 or 1)
  authOp,          \* the auth store operation of the last step
  loggedIn,        \* a login action completed and logout() was not called since
  wallNow,         \* Date.now(), in milliseconds
  subMounted,      \* the Subscription page is mounted
  subscription,    \* Subscription: the subscription query has data
  hasAutoRefreshed,        \* Subscription: hasAutoRefreshed.current
  trafficRefreshCooldown,  \* Subscription: state trafficRefreshCooldown
  timerDue,        \* Subscription: <<t>> when the cooldown interval fires next, or <<>>
  isPending,       \* Subscription: refreshTrafficMutation.isPending
  orphanRequests,  \* refresh requests in flight whose page was unmounted
  lsTrafficTs,     \* localStorage 'traffic_refresh_ts': <<t>>, or <<>> when missing
  autoRefreshes,   \* refresh requests the auto-refresh effect sent since the mount
  lastData,        \* <<rate_limited, retry_after_seconds>> of a success in the last step
  pageOp,          \* the page operation of the last step
  loginMounted,    \* the Login page is mounted
  view,            \* Login: state view, "form" or "verify"
  cooldown,        \* Login: state cooldown, seconds
  resendCount,     \* Login: state resendCount
  loginRequest,    \* Login: the request awaited, "none", "register" or "resend"
  timerPhase,      \* Login: Date.now() % 1000 when its interval was set
  lsLastRequest,   \* localStorage 'cabinet_email_last_request': <<t>> or <<>>
  lsResendCount    \* localStorage 'cabinet_email_resend_count': <<n>> or <<>>

loopVars == <<isMobile, documentHidden, tgApi, tgIsActive, now, frameTime, rafQueue,
          nextRafId, docListeners, tgActivatedL, tgDeactivatedL, phase, hook,
          animId, lastTime, docHidden, tgInactive, fired, lastCall,
          startedAt, calls, lastOp, threw, pausePhase, paused, pDocHidden,
          pTgInactive, pauseListeners, boxPhase, boxAnimId, boxQueue,
          boxResizeL, boxDrew>>

storageVars == <<lsAccess, lsRefresh, lsUser>>

requestVars == <<location, reqPc, retry, reqAuth, lastStatus, refreshes,
                 replays, refreshTok, rejection>>

authVars == <<accessToken, refreshToken, user, isAuthenticated, isLoading,
              isAdmin, initPc, initAccess, initRefresh, initCalls,
              initGetMeOk, adminChecks, authOp, loggedIn>>

trafficVars == <<subMounted, subscription, hasAutoRefreshed,
                 trafficRefreshCooldown, timerDue, isPending, orphanRequests,
                 lsTrafficTs, autoRefreshes, lastData>>

loginVars == <<loginMounted, view, cooldown, resendCount, loginRequest,
               timerPhase, lsLastRequest, lsResendCount>>

pageVars == <<wallNow, pageOp, trafficVars, loginVars>>

vars == <<loopVars, storageVars, requestVars, authVars, pageVars>>

\* The whole state as one record: the operators below are the source's
\* functions, from a state to the state after the call.
World ==
  [isMobile |-> isMobile, documentHidden |-> documentHidden, tgApi |-> tgApi,
   tgIsActive |-> tgIsActive, now |-> now, frameTime |-> frameTime,
   rafQueue |-> rafQueue, nextRafId |-> nextRafId, docListeners |-> docListeners,
   tgActivatedL |-> tgActivatedL, tgDeactivatedL |-> tgDeactivatedL,
   phase |-> phase, hook |-> hook, animId |-> animId, lastTime |-> lastTime,
   docHidden |-> docHidden, tgInactive |-> tgInactive, fired |-> fired,
   lastCall |-> lastCall, startedAt |-> startedAt,
   calls |-> calls, lastOp |-> lastOp, threw |-> threw,
   pausePhase |-> pausePhase, paused |-> paused, pDocHidden |-> pDocHidden,
   pTgInactive |-> pTgInactive, pauseListeners |-> pauseListeners,
   boxPhase |-> boxPhase, boxAnimId |-> boxAnimId, boxQueue |-> boxQueue,
   boxResizeL |-> boxResizeL, boxDrew |-> boxDrew]

Commit(S) ==
  /\ isMobile' = S.isMobile
  /\ documentHidden' = S.documentHidden
  /\ tgApi' = S.tgApi
  /\ tgIsActive' = S.tgIsActive
  /\ now' = S.now
  /\ frameTime' = S.frameTime
  /\ rafQueue' = S.rafQueue
  /\ nextRafId' = S.nextRafId
  /\ docListeners' = S.docListeners
  /\ tgActivatedL' = S.tgActivatedL
  /\ tgDeactivatedL' = S.tgDeactivatedL
  /\ phase' = S.phase
  /\ hook' = S.hook
  /\ animId' = S.animId
  /\ lastTime' = S.lastTime
  /\ docHidden' = S.docHidden
  /\ tgInactive' = S.tgInactive
  /\ fired' = S.fired
  /\ lastCall' = S.lastCall
  /\ startedAt' = S.startedAt
  /\ calls' = S.calls
  /\ lastOp' = S.lastOp
  /\ threw' = S.threw
  /\ pausePhase' = S.pausePhase
  /\ paused' = S.paused
  /\ pDocHidden' = S.pDocHidden
  /\ pTgInactive' = S.pTgInactive
  /\ pauseListeners' = S.pauseListeners
  /\ boxPhase' = S.boxPhase
  /\ boxAnimId' = S.boxAnimId
  /\ boxQueue' = S.boxQueue
  /\ boxResizeL' = S.boxResizeL
  /\ boxDrew' = S.boxDrew
  /\ UNCHANGED <<storageVars, requestVars, authVars, pageVars>>

\* ------------------------------------------------------ module constants
TARGET_FPS_Swapped(S) == IF S.isMobile THEN 60 ELSE 30
TARGET_FPS(S) == IF S.isMobile THEN 30 ELSE 60

\* 1000 / TARGET_FPS milliseconds, in units of 2/3 ms
FRAME_INTERVAL(S) == (1000 * 3) \div (2 * TARGET_FPS(S))

\* ------------------------------------------------------------ platform
\* requestAnimationFrame(loop) of handle k; the id it returns is S.nextRafId
requestAnimationFrame(S, k) ==
  [S EXCEPT !.rafQueue = @ \cup {[id |-> S.nextRafId, h |-> k]},
            !.nextRafId = @ + 1]

cancelAnimationFrame(S, id) ==
  [S EXCEPT !.rafQueue = {r \in @ : r.id # id}]

HasOnEvent(S) == S.tgApi = "full"
HasOffEvent(S) == S.tgApi = "full"
tg(S) == S.tgApi # "absent"

\* --------------------------------------------------------- the closure
isPaused(S, k) == S.docHidden[k] \/ S.tgInactive[k]

\* the callback call callbackRef.current(time, delta), as the record of it
callback(S, k, time, delta) ==
  [S EXCEPT !.fired[k] = <<time, delta>>,
            !.lastCall[k] = time,
            !.calls[k] = @ + 1]

loopNoThrottle(S, k, time, throws) ==
  LET delta == time - S.lastTime[k]
      S1 == callback([S EXCEPT !.lastTime[k] = time], k, time, delta)
  IN  IF throws THEN [S1 EXCEPT !.threw = @ \cup {k}]
      ELSE [requestAnimationFrame(S1, k) EXCEPT !.animId[k] = S1.nextRafId]

loopNoDriftCorrection(S, k, time, throws) ==
  LET delta == time - S.lastTime[k]
      accept == delta >= FRAME_INTERVAL(S)
      S1 == IF accept
              THEN callback([S EXCEPT !.lastTime[k] = time], k, time, delta)
              ELSE S
  IN  IF accept /\ throws THEN [S1 EXCEPT !.threw = @ \cup {k}]
      ELSE [requestAnimationFrame(S1, k) EXCEPT !.animId[k] = S1.nextRafId]

\* a loop that catches what the callback raises and goes on
loopCatchesError(S, k, time, throws) ==
  LET delta == time - S.lastTime[k]
      accept == delta >= FRAME_INTERVAL(S)
      S1 == IF accept
              THEN callback([S EXCEPT !.lastTime[k] = time - (delta % FRAME_INTERVAL(S))],
                            k, time, delta)
              ELSE S
      S2 == IF accept /\ throws THEN [S1 EXCEPT !.threw = @ \cup {k}] ELSE S1
  IN  [requestAnimationFrame(S2, k) EXCEPT !.animId[k] = S2.nextRafId]

\* loop(time); throws: the callback raises, and the rest of loop is skipped
loop(S, k, time, throws) ==
  LET delta == time - S.lastTime[k]
      accept == delta >= FRAME_INTERVAL(S)
      S1 == IF accept
              THEN callback([S EXCEPT !.lastTime[k] = time - (delta % FRAME_INTERVAL(S))],
                            k, time, delta)
              ELSE S
  IN  IF accept /\ throws THEN [S1 EXCEPT !.threw = @ \cup {k}]
      ELSE [requestAnimationFrame(S1, k) EXCEPT !.animId[k] = S1.nextRafId]

startNoGuard(S, k) ==
  [requestAnimationFrame(S, k) EXCEPT !.lastTime[k] = S.now,
                                      !.animId[k] = S.nextRafId,
                                      !.startedAt[k] = S.now,
                                      !.calls[k] = 0]

startKeepsLastTime(S, k) ==
  IF S.animId[k] # 0 THEN S
  ELSE [requestAnimationFrame(S, k) EXCEPT !.animId[k] = S.nextRafId,
                                           !.startedAt[k] = S.now,
                                           !.calls[k] = 0]

start(S, k) ==
  IF S.animId[k] # 0 THEN S
  ELSE [requestAnimationFrame(S, k) EXCEPT !.lastTime[k] = S.now,
                                           !.animId[k] = S.nextRafId,
                                           !.startedAt[k] = S.now,
                                           !.calls[k] = 0]

stop(S, k) ==
  IF S.animId[k] # 0
    THEN [cancelAnimationFrame(S, S.animId[k]) EXCEPT !.animId[k] = 0]
    ELSE S

onVisibilityChange(S, k) ==
  LET S1 == [S EXCEPT !.docHidden[k] = S.documentHidden]
  IN  IF isPaused(S1, k) THEN stop(S1, k) ELSE start(S1, k)

onTgActivated(S, k) ==
  LET S1 == [S EXCEPT !.tgInactive[k] = FALSE]
  IN  IF ~isPaused(S1, k) THEN start(S1, k) ELSE S1

onTgDeactivated(S, k) ==
  stop([S EXCEPT !.tgInactive[k] = TRUE], k)

\* an effect body that subscribes to the host's events without the guards
effectSubscribesUnguarded(S, k, c) ==
  LET S1 == [S EXCEPT !.phase[k] = "live", !.hook[k] = c,
                      !.animId[k] = 0, !.lastTime[k] = 0,
                      !.docHidden[k] = S.documentHidden,
                      !.tgInactive[k] = FALSE]
      S2 == [S1 EXCEPT !.docListeners = @ \cup {k},
                       !.tgActivatedL = @ \cup {k},
                       !.tgDeactivatedL = @ \cup {k}]
  IN  IF ~isPaused(S2, k) THEN start(S2, k) ELSE S2

\* the effect body: a new closure, its listeners, and the first start
effect(S, k, c) ==
  LET S1 == [S EXCEPT !.phase[k] = "live", !.hook[k] = c,
                      !.animId[k] = 0, !.lastTime[k] = 0,
                      !.docHidden[k] = S.documentHidden,
                      !.tgInactive[k] = FALSE]
      S2 == [S1 EXCEPT !.docListeners = @ \cup {k}]
      S3 == IF tg(S2) /\ HasOnEvent(S2)
              THEN [S2 EXCEPT !.tgActivatedL = @ \cup {k},
                              !.tgDeactivatedL = @ \cup {k}]
              ELSE S2
  IN  IF ~isPaused(S3, k) THEN start(S3, k) ELSE S3

\* something of the platform still refers to the closure of handle k
Referenced(S, k) ==
  \/ k \in S.docListeners \cup S.tgActivatedL \cup S.tgDeactivatedL
  \/ \E r \in S.rafQueue : r.h = k

\* The handle's record once its cleanup has run.  What was recorded of its
\* running period (lastCall, startedAt, calls) is dropped with it, and when no
\* listener and no frame request refers to the closure any more nothing can
\* read lastTime, docHidden and tgInactive again: they are collected.  animId
\* is kept as cleanup left it.
Disposed(S, k) ==
  LET S1 == [S EXCEPT !.phase[k] = "disposed", !.lastCall[k] = -1,
                      !.startedAt[k] = 0, !.calls[k] = 0]
  IN  IF Referenced(S1, k) THEN S1
      ELSE [S1 EXCEPT !.lastTime[k] = 0, !.docHidden[k] = FALSE,
                      !.tgInactive[k] = FALSE]

cleanupWithoutStop(S, k) ==
  LET S2 == [S EXCEPT !.docListeners = @ \ {k}]
      S3 == IF tg(S2) /\ HasOffEvent(S2)
              THEN [S2 EXCEPT !.tgActivatedL = @ \ {k},
                              !.tgDeactivatedL = @ \ {k}]
              ELSE S2
  IN  Disposed(S3, k)

cleanupKeepsTgListeners(S, k) ==
  LET S1 == stop(S, k)
      S2 == [S1 EXCEPT !.docListeners = @ \ {k}]
  IN  Disposed(S2, k)

\* the function the effect returns
cleanup(S, k) ==
  LET S1 == stop(S, k)
      S2 == [S1 EXCEPT !.docListeners = @ \ {k}]
      S3 == IF tg(S2) /\ HasOffEvent(S2)
              THEN [S2 EXCEPT !.tgActivatedL = @ \ {k},
                              !.tgDeactivatedL = @ \ {k}]
              ELSE S2
  IN  Disposed(S3, k)

\* ---------------------------------------------------- useAnimationPause
\* the first render: useState(() => document.hidden)
pauseRender(S) ==
  [S EXCEPT !.pausePhase = "rendered", !.paused = S.documentHidden]

\* update(): setPaused(docHidden || tgInactive)
update(S) == [S EXCEPT !.paused = S.pDocHidden \/ S.pTgInactive]

onVisibility(S) == update([S EXCEPT !.pDocHidden = S.documentHidden])
onActivated(S) == update([S EXCEPT !.pTgInactive = FALSE])
onDeactivated(S) == update([S EXCEPT !.pTgInactive = TRUE])

\* the effect body of useAnimationPause: its closure and its listeners
pauseEffect(S) ==
  LET S1 == [S EXCEPT !.pausePhase = "live",
                      !.pDocHidden = S.documentHidden,
                      !.pTgInactive = FALSE,
                      !.pauseListeners = @ \cup {"visibilitychange"}]
  IN  IF tg(S1) /\ HasOnEvent(S1)
        THEN [S1 EXCEPT !.pauseListeners = @ \cup {"activated", "deactivated"}]
        ELSE S1

\* the function the effect of useAnimationPause returns
pauseCleanup(S) ==
  LET S1 == [S EXCEPT !.pausePhase = "disposed",
                      !.pauseListeners = @ \ {"visibilitychange"}]
  IN  IF tg(S1) /\ HasOffEvent(S1)
        THEN [S1 EXCEPT !.pauseListeners = @ \ {"activated", "deactivated"}]
        ELSE S1

\* the handler useAnimationPause registered for event ev, if any
pauseDispatch(S, ev) ==
  IF ev \notin S.pauseListeners THEN S
  ELSE CASE ev = "visibilitychange" -> onVisibility(S)
         [] ev = "activated" -> onActivated(S)
         [] ev = "deactivated" -> onDeactivated(S)

\* ------------------------------------------------- platform dispatching
Min(s) == CHOOSE x \in s : \A y \in s : x <= y

handler(S, k, ev) ==
  CASE ev = "visibilitychange" -> onVisibilityChange(S, k)
    [] ev = "activated" -> onTgActivated(S, k)
    [] ev = "deactivated" -> onTgDeactivated(S, k)

\* the listeners of one event run one after the other, in registration order
RECURSIVE dispatch(_, _, _)
dispatch(S, ks, ev) ==
  IF ks = {} THEN S
  ELSE LET k == Min(ks) IN dispatch(handler(S, k, ev), ks \ {k}, ev)

\* one frame: the callbacks registered before the frame run in registration
\* order, all with the frame's timestamp; what they register waits for the next
RECURSIVE runCallbacks(_, _, _, _)
runCallbacks(S, ids, time, throwers) ==
  IF ids = {} THEN S
  ELSE LET i == Min(ids)
           r == CHOOSE r \in S.rafQueue : r.id = i
           S1 == [S EXCEPT !.rafQueue = @ \ {r}]
       IN  runCallbacks(loop(S1, r.h, time, r.h \in throwers), ids \ {i}, time, throwers)

Begin(op) ==
  [World EXCEPT !.fired = [k \in Handles |-> None], !.threw = {},
                !.boxDrew = FALSE, !.lastOp = op]

\* -------------------------------------------------------------- actions
TypeOK ==
  /\ isMobile \in BOOLEAN /\ documentHidden \in BOOLEAN /\ tgIsActive \in BOOLEAN
  /\ tgApi \in {"absent", "noEvents", "full"}
  /\ now \in Nat /\ frameTime \in Int /\ frameTime <= now
  /\ nextRafId \in Nat \ {0}
  /\ docListeners \subseteq Handles
  /\ tgActivatedL \subseteq Handles /\ tgDeactivatedL \subseteq Handles
  /\ \A k \in Handles : phase[k] \in {"unborn", "live", "disposed"}

InitLoop ==
  /\ isMobile \in BOOLEAN
  /\ documentHidden \in BOOLEAN
  /\ tgApi \in {"absent", "noEvents", "full"}
  /\ tgIsActive = TRUE
  /\ now = 0
  /\ frameTime = -1
  /\ rafQueue = {}
  /\ nextRafId = 1
  /\ docListeners = {}
  /\ tgActivatedL = {}
  /\ tgDeactivatedL = {}
  /\ phase = [k \in Handles |-> "unborn"]
  /\ hook = [k \in Handles |-> 0]
  /\ animId = [k \in Handles |-> 0]
  /\ lastTime = [k \in Handles |-> 0]
  /\ docHidden = [k \in Handles |-> FALSE]
  /\ tgInactive = [k \in Handles |-> FALSE]
  /\ fired = [k \in Handles |-> None]
  /\ lastCall = [k \in Handles |-> -1]
  /\ startedAt = [k \in Handles |-> 0]
  /\ calls = [k \in Handles |-> 0]
  /\ lastOp = "init"
  /\ threw = {}
  /\ pausePhase = "unmounted"
  /\ paused = FALSE
  /\ pDocHidden = FALSE
  /\ pTgInactive = FALSE
  /\ pauseListeners = {}
  /\ boxPhase = "unmounted"
  /\ boxAnimId = 0
  /\ boxQueue = {}
  /\ boxResizeL = FALSE
  /\ boxDrew = FALSE

\* no request was made yet; storage holds `access`, `refresh`, `storedUser`
InitApi(access, refresh, storedUser) ==
  /\ lsAccess = access
  /\ lsRefresh = refresh
  /\ lsUser = storedUser
  /\ location = "app"
  /\ reqPc = [r \in Reqs |-> "idle"]
  /\ retry = [r \in Reqs |-> FALSE]
  /\ reqAuth = [r \in Reqs |-> Null]
  /\ lastStatus = [r \in Reqs |-> NoResponse]
  /\ refreshes = [r \in Reqs |-> 0]
  /\ replays = [r \in Reqs |-> 0]
  /\ refreshTok = [r \in Reqs |-> Null]
  /\ rejection = [r \in Reqs |-> "none"]

\* the auth store as created, with the refreshToken and user that persist
\* restored, before initialize() runs
InitAuth(refresh, persistedUser) ==
  /\ accessToken = Null
  /\ refreshToken = refresh
  /\ user = persistedUser
  /\ isAuthenticated = FALSE
  /\ isLoading = TRUE
  /\ isAdmin = FALSE
  /\ initPc = "idle"
  /\ initAccess = Null
  /\ initRefresh = Null
  /\ initCalls = 0
  /\ initGetMeOk = FALSE
  /\ adminChecks = 0
  /\ authOp = "none"
  /\ loggedIn = FALSE

\* no page is mounted and the pages' storage items are missing
InitPages ==
  /\ wallNow = 0
  /\ pageOp = "none"
  /\ subMounted = FALSE
  /\ subscription = FALSE
  /\ hasAutoRefreshed = FALSE
  /\ trafficRefreshCooldown = 0
  /\ timerDue = <<>>
  /\ isPending = FALSE
  /\ orphanRequests = 0
  /\ lsTrafficTs = <<>>
  /\ autoRefreshes = 0
  /\ lastData = <<>>
  /\ loginMounted = FALSE
  /\ view = "form"
  /\ cooldown = 0
  /\ resendCount = 0
  /\ loginRequest = "none"
  /\ timerPhase = 0
  /\ lsLastRequest = <<>>
  /\ lsResendCount = <<>>

Init ==
  InitLoop /\ InitApi(Null, Null, Null) /\ InitAuth(Null, Null) /\ InitPages

LiveOf(c) == {k \in Handles : phase[k] = "live" /\ hook[k] = c}
Unborn == {k \in Handles : phase[k] = "unborn"}

\* a component using the hook mounts: the effect runs for the first time
Mount(c) ==
  /\ LiveOf(c) = {}
  /\ Unborn # {}
  /\ LET S == effect(Begin("mount"), Min(Unborn), c)
     IN  S.nextRafId <= MaxRafId + 1 /\ Commit(S)

\* the component unmounts: React calls the effect's cleanup
Unmount(c) ==
  /\ LiveOf(c) # {}
  /\ Commit(cleanup(Begin("unmount"), Min(LiveOf(c))))

\* a deps change that runs the effect again without the old effect's cleanup
DepsChangeNoCleanup(c) ==
  /\ LiveOf(c) # {}
  /\ Unborn # {}
  /\ LET S == effect(Begin("deps"), Min(Unborn), c)
     IN  S.nextRafId <= MaxRafId + 1 /\ Commit(S)

\* a value of deps changed: cleanup of the old effect, then the effect again
DepsChange(c) ==
  /\ LiveOf(c) # {}
  /\ Unborn # {}
  /\ LET S == effect(cleanup(Begin("deps"), Min(LiveOf(c))), Min(Unborn), c)
     IN  S.nextRafId <= MaxRafId + 1 /\ Commit(S)

\* the cleanup function of a disposed effect is called once more
CleanupAgain(k) ==
  /\ phase[k] = "disposed"
  /\ Commit(cleanup(Begin("cleanupAgain"), k))

\* the document becomes hidden or visible: visibilitychange is dispatched
VisibilityChange ==
  LET S0 == [Begin("visibilitychange") EXCEPT !.documentHidden = ~documentHidden]
      S == pauseDispatch(dispatch(S0, S0.docListeners, "visibilitychange"),
                         "visibilitychange")
  IN  S.nextRafId <= MaxRafId + 1 /\ Commit(S)

\* the host signals that the mini app was deactivated
HostDeactivated ==
  /\ tgApi = "full"
  /\ tgIsActive
  /\ LET S0 == [Begin("deactivated") EXCEPT !.tgIsActive = FALSE]
     IN  Commit(pauseDispatch(dispatch(S0, S0.tgDeactivatedL, "deactivated"),
                              "deactivated"))

\* the host signals that the mini app was activated again
HostActivated ==
  /\ tgApi = "full"
  /\ ~tgIsActive
  /\ LET S0 == [Begin("activated") EXCEPT !.tgIsActive = TRUE]
         S == pauseDispatch(dispatch(S0, S0.tgActivatedL, "activated"), "activated")
     IN  S.nextRafId <= MaxRafId + 1 /\ Commit(S)

\* performance.now() advances
AdvanceClock(d) ==
  /\ now < MaxTime
  /\ Commit([Begin("clock") EXCEPT !.now = now + d])

\* the platform runs a frame with timestamp t; the callbacks of `throwers` raise
frame(S0, t, throwers) ==
  runCallbacks([S0 EXCEPT !.frameTime = t], {r.id : r \in S0.rafQueue}, t, throwers)

RunFrame(lags) ==
  \E lag \in lags, throwers \in SUBSET {r.h : r \in rafQueue} :
    /\ now - lag > frameTime
    /\ LET S == frame(Begin("frame"), now - lag, throwers)
       IN  S.nextRafId <= MaxRafId + 1 /\ Commit(S)

Next ==
  \/ \E c \in SoloHooks : Mount(c)
  \/ \E c \in SoloHooks : Unmount(c)
  \/ \E c \in SoloHooks : DepsChange(c)
  \/ \E k \in Handles : CleanupAgain(k)
  \/ VisibilityChange
  \/ HostDeactivated
  \/ HostActivated
  \/ AdvanceClock(CoarseStep)
  \/ RunFrame(NoLag)

Spec == Init /\ [][Next]_vars

\* One Loop Handle under fine-grained time: the clock advances in steps of
\* 16 ms, a frame's timestamp may lag the clock, and the handle is stopped and
\* started again by visibility and activation events.
NextThrottle ==
  \/ Mount(1)
  \/ VisibilityChange
  \/ HostDeactivated
  \/ HostActivated
  \/ AdvanceClock(ClockStep)
  \/ RunFrame(FrameLags)

SpecThrottle == Init /\ [][NextThrottle]_vars

\* The scenario of a 30 FPS ceiling under frames that arrive every 16 ms: the
\* hook mounts at any offset within the first tick period, in a visible
\* document, and frames follow at 16, 32, 48, ... ms with no lag.
InitTick16 ==
  /\ Init
  /\ isMobile
  /\ ~documentHidden

MountAtOffset(offset) ==
  /\ LiveOf(1) = {}
  /\ Unborn # {}
  /\ Commit(effect([Begin("mount") EXCEPT !.now = offset], Min(Unborn), 1))

Tick16 ==
  LET t == IF frameTime < 0 THEN TickPeriod ELSE frameTime + TickPeriod
  IN  /\ LiveOf(1) # {}
      /\ t <= MaxTicks16 * TickPeriod
      /\ Commit(frame([Begin("frame") EXCEPT !.now = t], t, {}))

NextTick16 ==
  \/ \E offset \in 0..(TickPeriod - 1) : MountAtOffset(offset)
  \/ Tick16

SpecTick16 == InitTick16 /\ [][NextTick16]_vars

\* ------------------------------------------------------ BackgroundBoxes
\* The canvas background of background-boxes.tsx, which requests its frames
\* from the platform itself.

\* animId = requestAnimationFrame(draw)
boxRequestFrame(S) ==
  [S EXCEPT !.boxQueue = @ \cup {S.nextRafId},
            !.boxAnimId = S.nextRafId,
            !.nextRafId = @ + 1]

\* draw(now): paints the grid, then requests the next frame
draw(S) == boxRequestFrame([S EXCEPT !.boxDrew = TRUE])

\* the effect body of BackgroundBoxes; hasCanvas: the canvas and its 2d
\* context exist
boxesEffect(S, hasCanvas) ==
  IF ~hasCanvas THEN [S EXCEPT !.boxPhase = "inert"]
  ELSE boxRequestFrame([S EXCEPT !.boxPhase = "live", !.boxAnimId = 0,
                                 !.boxResizeL = TRUE])

\* the function the effect returns; an effect that returned early has none
boxesCleanup(S) ==
  IF S.boxPhase = "inert" THEN [S EXCEPT !.boxPhase = "unmounted"]
  ELSE [S EXCEPT !.boxPhase = "unmounted",
                 !.boxQueue = @ \ {S.boxAnimId},
                 !.boxAnimId = 0,
                 !.boxResizeL = FALSE]

BoxMount(hasCanvas) ==
  /\ boxPhase = "unmounted"
  /\ LET S == boxesEffect(Begin("boxMount"), hasCanvas)
     IN  S.nextRafId <= MaxRafId + 1 /\ Commit(S)

BoxUnmount ==
  /\ boxPhase # "unmounted"
  /\ Commit(boxesCleanup(Begin("boxUnmount")))

\* cells, rows or cols changed: cleanup of the old effect, then the effect again
BoxDepsChange(hasCanvas) ==
  /\ boxPhase # "unmounted"
  /\ LET S == boxesEffect(boxesCleanup(Begin("boxDeps")), hasCanvas)
     IN  S.nextRafId <= MaxRafId + 1 /\ Commit(S)

\* the platform runs a frame: it does so only while the document is visible
BoxFrame ==
  /\ ~documentHidden
  /\ boxQueue # {}
  /\ now > frameTime
  /\ LET S0 == [Begin("frame") EXCEPT !.frameTime = now, !.boxQueue = {}]
         S == draw(S0)
     IN  S.nextRafId <= MaxRafId + 1 /\ Commit(S)

NextBoxes ==
  \/ \E hasCanvas \in BOOLEAN : BoxMount(hasCanvas)
  \/ BoxUnmount
  \/ \E hasCanvas \in BOOLEAN : BoxDepsChange(hasCanvas)
  \/ BoxFrame
  \/ VisibilityChange
  \/ HostDeactivated
  \/ HostActivated
  \/ AdvanceClock(CoarseStep)

SpecBoxes == Init /\ [][NextBoxes]_vars

\* ------------------------------------------------------------ apiClient
\* Requests sent through apiClient and its two interceptors.

\* the request interceptor: the Authorization header a request leaves with,
\* given the header of its config and the stored access_token
requestInterceptor(header, access) == IF access # Null THEN access ELSE header

\* a refresh condition without the _retry flag
shouldRefreshIgnoringRetry(status, retried) == status = 401

\* the condition under which the response interceptor tries a token refresh
shouldRefresh(status, retried) == status = 401 /\ ~retried

\* a replay whose request interceptor runs before the token is stored
replayHeaderBeforeStore(stored, access_token) ==
  requestInterceptor(access_token, stored)

\* the header the original request is replayed with after a refresh returned
\* access_token: the token is stored, set on the config, and the request
\* interceptor then reads the store
replayHeader(stored, access_token) ==
  requestInterceptor(access_token, access_token)

\* apiClient(config) for a new request
Send(r) ==
  /\ reqPc[r] = "idle"
  /\ reqPc' = [reqPc EXCEPT ![r] = "sent"]
  /\ reqAuth' = [reqAuth EXCEPT ![r] = requestInterceptor(Null, lsAccess)]
  /\ UNCHANGED <<lsAccess, lsRefresh, lsUser, location, retry, lastStatus,
                 refreshes, replays, refreshTok, rejection>>
  /\ UNCHANGED <<loopVars, authVars, pageVars>>

\* the response with `status` arrives: the response interceptor up to its
\* first await, or to its end
Respond(r, status) ==
  /\ reqPc[r] = "sent"
  /\ refreshes[r] < MaxRefreshes
  /\ lastStatus' = [lastStatus EXCEPT ![r] = status]
  /\ IF status = 200
       THEN /\ reqPc' = [reqPc EXCEPT ![r] = "resolved"]
            /\ UNCHANGED <<retry, refreshes, rejection>>
       ELSE IF shouldRefresh(status, retry[r])
         THEN /\ retry' = [retry EXCEPT ![r] = TRUE]
              /\ IF lsRefresh # Null
                   THEN /\ reqPc' = [reqPc EXCEPT ![r] = "refreshing"]
                        /\ refreshes' = [refreshes EXCEPT ![r] = @ + 1]
                        /\ UNCHANGED rejection
                   ELSE /\ reqPc' = [reqPc EXCEPT ![r] = "rejected"]
                        /\ rejection' = [rejection EXCEPT ![r] = "error"]
                        /\ UNCHANGED refreshes
         ELSE /\ reqPc' = [reqPc EXCEPT ![r] = "rejected"]
              /\ rejection' = [rejection EXCEPT ![r] = "error"]
              /\ UNCHANGED <<retry, refreshes>>
  /\ UNCHANGED <<lsAccess, lsRefresh, lsUser, location, reqAuth, replays, refreshTok>>
  /\ UNCHANGED <<loopVars, authVars, pageVars>>

\* the refresh call returned access_token: it is stored and the original
\* request is sent again
RefreshSucceeded(r, access_token) ==
  /\ reqPc[r] = "refreshing"
  /\ refreshTok' = [refreshTok EXCEPT ![r] = access_token]
  /\ lsAccess' = access_token
  /\ reqAuth' = [reqAuth EXCEPT ![r] = replayHeader(lsAccess, access_token)]
  /\ replays' = [replays EXCEPT ![r] = @ + 1]
  /\ reqPc' = [reqPc EXCEPT ![r] = "sent"]
  /\ UNCHANGED <<lsRefresh, lsUser, location, retry, lastStatus, refreshes, rejection>>
  /\ UNCHANGED <<loopVars, authVars, pageVars>>

\* the refresh call failed: the catch block
RefreshFailed(r) ==
  /\ reqPc[r] = "refreshing"
  /\ lsAccess' = Null
  /\ lsRefresh' = Null
  /\ lsUser' = Null
  /\ location' = "/login"
  /\ reqPc' = [reqPc EXCEPT ![r] = "rejected"]
  /\ rejection' = [rejection EXCEPT ![r] = "refreshError"]
  /\ UNCHANGED <<retry, reqAuth, lastStatus, refreshes, replays, refreshTok>>
  /\ UNCHANGED <<loopVars, authVars, pageVars>>

InitRequests ==
  /\ InitLoop
  /\ InitAuth(Null, Null)
  /\ InitPages
  /\ ~isMobile /\ ~documentHidden /\ tgApi = "absent"
  /\ \E access \in Tokens \cup {Null}, refresh \in {"refreshA", Null},
        storedUser \in {"user", Null} : InitApi(access, refresh, storedUser)

NextRequests ==
  \/ \E r \in Reqs : Send(r)
  \/ \E r \in Reqs, status \in Statuses : Respond(r, status)
  \/ \E r \in Reqs, access_token \in Tokens : RefreshSucceeded(r, access_token)
  \/ \E r \in Reqs : RefreshFailed(r)

SpecRequests == InitRequests /\ [][NextRequests]_vars

\* ----------------------------------------------------------- auth store
\* useAuthStore: initialize(), the login actions, logout(), checkAdminStatus().
\* The calls of authApi are network calls; how each one ends is an input.

RefreshTokens == {"refreshA", "refreshB"}

\* an initialize() that tests the access token only
tokenMissingAccessOnly(access, refresh) == access = Null

\* !accessToken || !refreshToken
tokenMissing(access, refresh) == access = Null \/ refresh = Null

\* get().checkAdminStatus(): the fetch is sent
checkAdminStatus == adminChecks' = 1

\* the catch block of the refresh path of initialize()
InitializeFailed ==
  /\ lsAccess' = Null
  /\ lsRefresh' = Null
  /\ accessToken' = Null
  /\ refreshToken' = Null
  /\ user' = Null
  /\ isAuthenticated' = FALSE
  /\ isLoading' = FALSE
  /\ initPc' = "done"
  /\ UNCHANGED <<lsUser, isAdmin, initAccess, initRefresh, initCalls,
                 initGetMeOk, adminChecks, loggedIn>>

\* a getMe call of initialize() returned the user
InitializeAuthenticated ==
  /\ accessToken' = initAccess
  /\ refreshToken' = initRefresh
  /\ user' = "user"
  /\ isAuthenticated' = TRUE
  /\ isLoading' = FALSE
  /\ initGetMeOk' = TRUE
  /\ initPc' = "done"
  /\ checkAdminStatus
  /\ UNCHANGED <<storageVars, isAdmin, initAccess, initRefresh, initCalls, loggedIn>>

\* initialize() up to its first await, or to its return
Initialize ==
  /\ initPc \in {"idle", "done"}
  /\ authOp' = "initialize"
  /\ isLoading' = ~tokenMissing(lsAccess, lsRefresh)
  /\ initAccess' = lsAccess
  /\ initRefresh' = lsRefresh
  /\ initGetMeOk' = FALSE
  /\ IF tokenMissing(lsAccess, lsRefresh)
       THEN /\ isAuthenticated' = FALSE
            /\ initPc' = "done"
            /\ initCalls' = 0
       ELSE /\ initPc' = "getMe"
            /\ initCalls' = 1
            /\ UNCHANGED isAuthenticated
  /\ UNCHANGED <<storageVars, accessToken, refreshToken, user, isAdmin,
                 adminChecks, loggedIn>>
  /\ UNCHANGED <<loopVars, requestVars, pageVars>>

\* the first authApi.getMe() of initialize() settles
GetMeSettled(ok) ==
  /\ initPc = "getMe"
  /\ authOp' = "getMe"
  /\ IF ok THEN InitializeAuthenticated
       ELSE /\ initPc' = "refresh"
            /\ initCalls' = initCalls + 1
            /\ UNCHANGED <<storageVars, accessToken, refreshToken, user,
                           isAuthenticated, isLoading, isAdmin, initAccess,
                           initRefresh, initGetMeOk, adminChecks, loggedIn>>
  /\ UNCHANGED <<loopVars, requestVars, pageVars>>

\* authApi.refreshToken(refreshToken) of initialize() settles
RefreshSettled(ok, access_token) ==
  /\ initPc = "refresh"
  /\ authOp' = "refresh"
  /\ IF ok
       THEN /\ lsAccess' = access_token
            /\ initAccess' = access_token
            /\ initPc' = "getMeAgain"
            /\ initCalls' = initCalls + 1
            /\ UNCHANGED <<lsRefresh, lsUser, accessToken, refreshToken, user,
                           isAuthenticated, isLoading, isAdmin, initRefresh,
                           initGetMeOk, adminChecks, loggedIn>>
       ELSE InitializeFailed
  /\ UNCHANGED <<loopVars, requestVars, pageVars>>

\* the authApi.getMe() after the refresh settles
GetMeAgainSettled(ok) ==
  /\ initPc = "getMeAgain"
  /\ authOp' = "getMeAgain"
  /\ IF ok THEN InitializeAuthenticated ELSE InitializeFailed
  /\ UNCHANGED <<loopVars, requestVars, pageVars>>

\* the fetch of checkAdminStatus() settles: "admin" and "user" are answers
\* with response.ok, "notOk" one without, "throws" a failed fetch
CheckAdminSettled(outcome) ==
  /\ adminChecks = 1
  /\ authOp' = "checkAdmin"
  /\ adminChecks' = 0
  /\ isAdmin' = CASE outcome = "admin" -> TRUE
                  [] outcome = "user" -> FALSE
                  [] outcome = "notOk" -> isAdmin
                  [] outcome = "throws" -> FALSE
  /\ UNCHANGED <<storageVars, accessToken, refreshToken, user, isAuthenticated,
                 isLoading, initPc, initAccess, initRefresh, initCalls,
                 initGetMeOk, loggedIn>>
  /\ UNCHANGED <<loopVars, requestVars, pageVars>>

\* loginWithTelegram / loginWithTelegramWidget / loginWithEmail after the
\* login call returned the tokens and the user
LoginCompleted(access, refresh) ==
  /\ authOp' = "login"
  /\ lsAccess' = access
  /\ lsRefresh' = refresh
  /\ accessToken' = access
  /\ refreshToken' = refresh
  /\ user' = "user"
  /\ isAuthenticated' = TRUE
  /\ loggedIn' = TRUE
  /\ checkAdminStatus
  /\ UNCHANGED <<lsUser, isLoading, isAdmin, initPc, initAccess, initRefresh,
                 initCalls, initGetMeOk>>
  /\ UNCHANGED <<loopVars, requestVars, pageVars>>

\* logout()
logout ==
  /\ authOp' = "logout"
  /\ lsAccess' = Null
  /\ lsRefresh' = Null
  /\ accessToken' = Null
  /\ refreshToken' = Null
  /\ user' = Null
  /\ isAuthenticated' = FALSE
  /\ isAdmin' = FALSE
  /\ loggedIn' = FALSE
  /\ UNCHANGED <<lsUser, isLoading, initPc, initAccess, initRefresh, initCalls,
                 initGetMeOk, adminChecks>>
  /\ UNCHANGED <<loopVars, requestVars, pageVars>>

\* the store at module load: the storage items are there or not, and persist
\* has restored a refreshToken and a user or not
InitStore ==
  /\ InitLoop
  /\ InitPages
  /\ ~isMobile /\ ~documentHidden /\ tgApi = "absent"
  /\ \E access \in Tokens \cup {Null}, refresh \in RefreshTokens \cup {Null} :
       InitApi(access, refresh, Null)
  /\ \E refresh \in RefreshTokens \cup {Null}, persistedUser \in {"user", Null} :
       InitAuth(refresh, persistedUser)

NextStore ==
  \/ Initialize
  \/ \E ok \in BOOLEAN : GetMeSettled(ok)
  \/ \E ok \in BOOLEAN, access_token \in Tokens : RefreshSettled(ok, access_token)
  \/ \E ok \in BOOLEAN : GetMeAgainSettled(ok)
  \/ \E outcome \in {"admin", "user", "notOk", "throws"} : CheckAdminSettled(outcome)
  \/ \E access \in Tokens, refresh \in RefreshTokens : LoginCompleted(access, refresh)
  \/ logout

SpecStore == InitStore /\ [][NextStore]_vars

\* The store from module load on: initialize() is called once, when the
\* module is evaluated; the Login page can complete a login only after that.
InitializeAtLoad == initPc = "idle" /\ Initialize

LoginAfterLoad(access, refresh) == initPc # "idle" /\ LoginCompleted(access, refresh)

logoutAfterLoad == initPc # "idle" /\ logout

NextLoad ==
  \/ InitializeAtLoad
  \/ \E ok \in BOOLEAN : GetMeSettled(ok)
  \/ \E ok \in BOOLEAN, access_token \in Tokens : RefreshSettled(ok, access_token)
  \/ \E ok \in BOOLEAN : GetMeAgainSettled(ok)
  \/ \E outcome \in {"admin", "user", "notOk", "throws"} : CheckAdminSettled(outcome)
  \/ \E access \in Tokens, refresh \in RefreshTokens : LoginAfterLoad(access, refresh)
  \/ logoutAfterLoad

SpecLoad == InitStore /\ [][NextLoad]_vars

\* ---------------------------------------------------- Subscription page
\* The traffic refresh of the Subscription page: the mutation, the cooldown
\* timer, the auto-refresh effect and the refresh button.

\* Math.ceil(a / b) for b > 0
Ceil(a, b) == -((-a) \div b)

cacheMs == 30 * 1000

WallSteps == {500, 1000, 10000}
RetryAfterSeconds == {0, 5}
RetryAfterHeaders == {<<>>, <<0>>, <<5>>}

\* a refresh button disabled only while a refresh is pending
refreshDisabledPendingOnly(pending, cooldownNow) == pending

\* the refresh button's disabled attribute
refreshDisabled(pending, cooldownNow) == pending \/ cooldownNow > 0

\* an auto-refresh effect without the hasAutoRefreshed guard
autoRefreshRunsAlways(has) == TRUE

\* the auto-refresh effect goes on after its hasAutoRefreshed check
autoRefreshRuns(has) == ~has

\* the cooldown timer effect, re-run when the cooldown changed from `old` to
\* `new`: the interval is cleared, and set again while the cooldown is positive
nextTimer(old, new, due) ==
  IF new = old THEN due
  ELSE IF new > 0 THEN <<wallNow + 1000>> ELSE <<>>

\* the auto-refresh effect of a page whose state is has/cd/pending/n/due
AutoRefreshEffect(has, cd, pending, n, due) ==
  IF ~autoRefreshRuns(has)
    THEN /\ hasAutoRefreshed' = has
         /\ trafficRefreshCooldown' = cd
         /\ isPending' = pending
         /\ autoRefreshes' = n
         /\ timerDue' = due
    ELSE /\ hasAutoRefreshed' = TRUE
         /\ IF lsTrafficTs # <<>> /\ wallNow - lsTrafficTs[1] < cacheMs
              THEN LET elapsed == wallNow - lsTrafficTs[1]
                       remaining == Ceil(cacheMs - elapsed, 1000)
                       new == IF remaining > 0 THEN remaining ELSE cd
                   IN  /\ trafficRefreshCooldown' = new
                       /\ timerDue' = nextTimer(cd, new, due)
                       /\ isPending' = pending
                       /\ autoRefreshes' = n
              ELSE /\ isPending' = TRUE
                   /\ autoRefreshes' = n + 1
                   /\ trafficRefreshCooldown' = cd
                   /\ timerDue' = due

\* the page mounts; loaded: the subscription query has data already
SubMount(loaded) ==
  /\ ~subMounted
  /\ pageOp' = "subMount"
  /\ subMounted' = TRUE
  /\ subscription' = loaded
  /\ lastData' = <<>>
  /\ IF loaded THEN AutoRefreshEffect(FALSE, 0, FALSE, 0, <<>>)
       ELSE /\ hasAutoRefreshed' = FALSE
            /\ trafficRefreshCooldown' = 0
            /\ isPending' = FALSE
            /\ autoRefreshes' = 0
            /\ timerDue' = <<>>
  /\ UNCHANGED <<wallNow, orphanRequests, lsTrafficTs>>
  /\ UNCHANGED <<loopVars, storageVars, requestVars, authVars, loginVars>>

\* the subscription query delivers its first data: the effect runs again
SubscriptionLoaded ==
  /\ subMounted /\ ~subscription
  /\ pageOp' = "loaded"
  /\ lastData' = <<>>
  /\ subscription' = TRUE
  /\ AutoRefreshEffect(hasAutoRefreshed, trafficRefreshCooldown, isPending,
                       autoRefreshes, timerDue)
  /\ UNCHANGED <<wallNow, subMounted, orphanRequests, lsTrafficTs>>
  /\ UNCHANGED <<loopVars, storageVars, requestVars, authVars, loginVars>>

\* the subscription query delivers new data (invalidateQueries, refetch)
SubscriptionRefetched ==
  /\ subMounted /\ subscription
  /\ autoRefreshes <= MaxAutoRefreshes
  /\ pageOp' = "refetched"
  /\ lastData' = <<>>
  /\ AutoRefreshEffect(hasAutoRefreshed, trafficRefreshCooldown, isPending,
                       autoRefreshes, timerDue)
  /\ UNCHANGED <<wallNow, subMounted, subscription, orphanRequests, lsTrafficTs>>
  /\ UNCHANGED <<loopVars, storageVars, requestVars, authVars, loginVars>>

\* the user clicks the refresh button
ManualRefresh ==
  /\ subMounted /\ subscription
  /\ ~refreshDisabled(isPending, trafficRefreshCooldown)
  /\ pageOp' = "manual"
  /\ lastData' = <<>>
  /\ isPending' = TRUE
  /\ UNCHANGED <<wallNow, subMounted, subscription, hasAutoRefreshed,
                 trafficRefreshCooldown, timerDue, orphanRequests, lsTrafficTs,
                 autoRefreshes>>
  /\ UNCHANGED <<loopVars, storageVars, requestVars, authVars, loginVars>>

\* onSuccess of refreshTrafficMutation
TrafficRefreshed(rate_limited, retry_after_seconds) ==
  /\ subMounted /\ isPending
  /\ pageOp' = "success"
  /\ isPending' = FALSE
  /\ lsTrafficTs' = <<wallNow>>
  /\ lastData' = <<rate_limited, retry_after_seconds>>
  /\ trafficRefreshCooldown' =
       IF rate_limited /\ retry_after_seconds # 0 THEN retry_after_seconds ELSE 30
  /\ timerDue' = nextTimer(trafficRefreshCooldown, trafficRefreshCooldown', timerDue)
  /\ UNCHANGED <<wallNow, subMounted, subscription, hasAutoRefreshed,
                 orphanRequests, autoRefreshes>>
  /\ UNCHANGED <<loopVars, storageVars, requestVars, authVars, loginVars>>

\* onError of refreshTrafficMutation; retryAfter: the Retry-After header
TrafficRefreshFailed(status, retryAfter) ==
  /\ subMounted /\ isPending
  /\ pageOp' = "error"
  /\ lastData' = <<>>
  /\ isPending' = FALSE
  /\ trafficRefreshCooldown' =
       IF status = 429
         THEN IF retryAfter # <<>> THEN retryAfter[1] ELSE 30
         ELSE trafficRefreshCooldown
  /\ timerDue' = nextTimer(trafficRefreshCooldown, trafficRefreshCooldown', timerDue)
  /\ UNCHANGED <<wallNow, subMounted, subscription, hasAutoRefreshed,
                 orphanRequests, lsTrafficTs, autoRefreshes>>
  /\ UNCHANGED <<loopVars, storageVars, requestVars, authVars, loginVars>>

\* the interval of the cooldown timer fires
CooldownTick ==
  /\ subMounted
  /\ timerDue # <<>>
  /\ wallNow >= timerDue[1]
  /\ pageOp' = "tick"
  /\ lastData' = <<>>
  /\ trafficRefreshCooldown' =
       IF trafficRefreshCooldown - 1 > 0 THEN trafficRefreshCooldown - 1 ELSE 0
  /\ timerDue' = nextTimer(trafficRefreshCooldown, trafficRefreshCooldown',
                           <<timerDue[1] + 1000>>)
  /\ UNCHANGED <<wallNow, subMounted, subscription, hasAutoRefreshed, isPending,
                 orphanRequests, lsTrafficTs, autoRefreshes>>
  /\ UNCHANGED <<loopVars, storageVars, requestVars, authVars, loginVars>>

\* the page unmounts: its state is gone, the timer is cleared, a pending
\* request stays in flight
SubUnmount ==
  /\ subMounted
  /\ isPending => orphanRequests = 0
  /\ pageOp' = "subUnmount"
  /\ subMounted' = FALSE
  /\ subscription' = FALSE
  /\ hasAutoRefreshed' = FALSE
  /\ trafficRefreshCooldown' = 0
  /\ timerDue' = <<>>
  /\ isPending' = FALSE
  /\ autoRefreshes' = 0
  /\ lastData' = <<>>
  /\ orphanRequests' = IF isPending THEN orphanRequests + 1 ELSE orphanRequests
  /\ UNCHANGED <<wallNow, lsTrafficTs>>
  /\ UNCHANGED <<loopVars, storageVars, requestVars, authVars, loginVars>>

\* the request of an unmounted page settles: onSuccess still writes the
\* timestamp, the state setters do nothing
OrphanSettled(ok) ==
  /\ orphanRequests > 0
  /\ pageOp' = "orphan"
  /\ lastData' = <<>>
  /\ orphanRequests' = orphanRequests - 1
  /\ lsTrafficTs' = IF ok THEN <<wallNow>> ELSE lsTrafficTs
  /\ UNCHANGED <<wallNow, subMounted, subscription, hasAutoRefreshed,
                 trafficRefreshCooldown, timerDue, isPending, autoRefreshes>>
  /\ UNCHANGED <<loopVars, storageVars, requestVars, authVars, loginVars>>

\* Date.now() advances by d milliseconds, not past the time at which the
\* cooldown interval fires
AdvanceWall(d) ==
  /\ wallNow + d <= MaxWallSub
  /\ timerDue # <<>> => wallNow + d <= timerDue[1]
  /\ pageOp' = "clock"
  /\ lastData' = <<>>
  /\ wallNow' = wallNow + d
  /\ UNCHANGED <<subMounted, subscription, hasAutoRefreshed,
                 trafficRefreshCooldown, timerDue, isPending, orphanRequests,
                 lsTrafficTs, autoRefreshes>>
  /\ UNCHANGED <<loopVars, storageVars, requestVars, authVars, loginVars>>

InitTraffic ==
  /\ Init
  /\ ~isMobile /\ ~documentHidden /\ tgApi = "absent"

NextTraffic ==
  \/ \E loaded \in BOOLEAN : SubMount(loaded)
  \/ SubscriptionLoaded
  \/ SubscriptionRefetched
  \/ ManualRefresh
  \/ \E rate_limited \in BOOLEAN, retry_after_seconds \in RetryAfterSeconds :
       TrafficRefreshed(rate_limited, retry_after_seconds)
  \/ \E status \in {429, 500}, retryAfter \in RetryAfterHeaders :
       TrafficRefreshFailed(status, retryAfter)
  \/ CooldownTick
  \/ SubUnmount
  \/ \E ok \in BOOLEAN : OrphanSettled(ok)
  \/ \E d \in WallSteps : AdvanceWall(d)

SpecTraffic == InitTraffic /\ [][NextTraffic]_vars

\* ------------------------------------------------------------ Login page
\* The verification-email cooldown of the Login page: register, resend, the
\* state restored at mount and the one-second timer.

RESEND_COOLDOWN_STAGES == <<30, 60, 180, 900>>
RESEND_RESET_TIME == 1000 * 60 * 60

\* RESEND_COOLDOWN_STAGES[k], the array counted from 0
Stage(k) == RESEND_COOLDOWN_STAGES[k + 1]
LastStage == Len(RESEND_COOLDOWN_STAGES) - 1

LoginSteps == {60 * 1000, RESEND_RESET_TIME + 60 * 1000}

\* the callback of the interval: c <= 0 ? 0 : c - 1
tick(c) == IF c <= 0 THEN 0 ELSE c - 1

\* the callback applied n times: each of the first c applications takes one
\* off, every later one leaves 0
ticks(c, n) == IF n = 0 THEN c ELSE IF c <= n THEN tick(0) ELSE tick(c - (n - 1))

\* a handleResend that does not look at the cooldown
resendNeverBlocked(c) == FALSE

\* handleResend: if (cooldown > 0) return
resendBlocked(c) == c > 0

\* handleRegister: nextCount
registerStage(dateNow) ==
  IF /\ lsLastRequest # <<>> /\ lsResendCount # <<>>
     /\ dateNow - lsLastRequest[1] < RESEND_RESET_TIME
    THEN IF lsResendCount[1] + 1 < LastStage THEN lsResendCount[1] + 1 ELSE LastStage
    ELSE 0

\* handleResend: nextCount
resendStage(count) == IF count + 1 < LastStage THEN count + 1 ELSE LastStage

\* the page mounts: the effect restores the state from storage and sets the
\* interval
LoginMount ==
  /\ ~loginMounted
  /\ pageOp' = "loginMount"
  /\ loginMounted' = TRUE
  /\ view' = "form"
  /\ loginRequest' = "none"
  /\ timerPhase' = wallNow % 1000
  /\ IF lsLastRequest # <<>> /\ lsResendCount # <<>>
       THEN IF wallNow - lsLastRequest[1] > RESEND_RESET_TIME
              THEN /\ lsLastRequest' = <<>>
                   /\ lsResendCount' = <<>>
                   /\ resendCount' = 0
                   /\ cooldown' = 0
              ELSE LET count == lsResendCount[1]
                       stageDuration == Stage(IF count < LastStage THEN count ELSE LastStage)
                       elapsed == (wallNow - lsLastRequest[1]) \div 1000
                   IN  /\ resendCount' = count
                       /\ cooldown' = IF stageDuration - elapsed > 0
                                        THEN stageDuration - elapsed ELSE 0
                       /\ UNCHANGED <<lsLastRequest, lsResendCount>>
       ELSE /\ resendCount' = 0
            /\ cooldown' = 0
            /\ UNCHANGED <<lsLastRequest, lsResendCount>>
  /\ UNCHANGED <<wallNow, trafficVars>>
  /\ UNCHANGED <<loopVars, storageVars, requestVars, authVars>>

\* the page unmounts while it awaits no request: its state is gone
LoginUnmount ==
  /\ loginMounted /\ loginRequest = "none"
  /\ pageOp' = "loginUnmount"
  /\ loginMounted' = FALSE
  /\ view' = "form"
  /\ cooldown' = 0
  /\ resendCount' = 0
  /\ timerPhase' = 0
  /\ UNCHANGED <<wallNow, trafficVars, loginRequest, lsLastRequest, lsResendCount>>
  /\ UNCHANGED <<loopVars, storageVars, requestVars, authVars>>

\* handleEmailLogin answered 403 EMAIL_NOT_VERIFIED: the verify view is shown
LoginNotVerified ==
  /\ loginMounted /\ view = "form" /\ loginRequest = "none"
  /\ pageOp' = "notVerified"
  /\ view' = "verify"
  /\ UNCHANGED <<wallNow, trafficVars, loginMounted, cooldown, resendCount,
                 loginRequest, timerPhase, lsLastRequest, lsResendCount>>
  /\ UNCHANGED <<loopVars, storageVars, requestVars, authVars>>

\* the button back to the form
BackToForm ==
  /\ loginMounted /\ view = "verify"
  /\ pageOp' = "backToForm"
  /\ view' = "form"
  /\ UNCHANGED <<wallNow, trafficVars, loginMounted, cooldown, resendCount,
                 loginRequest, timerPhase, lsLastRequest, lsResendCount>>
  /\ UNCHANGED <<loopVars, storageVars, requestVars, authVars>>

\* handleRegister up to its await: the form is submitted
handleRegister ==
  /\ loginMounted /\ view = "form" /\ loginRequest = "none"
  /\ pageOp' = "register"
  /\ loginRequest' = "register"
  /\ UNCHANGED <<wallNow, trafficVars, loginMounted, view, cooldown, resendCount,
                 timerPhase, lsLastRequest, lsResendCount>>
  /\ UNCHANGED <<loopVars, storageVars, requestVars, authVars>>

\* authApi.register settles
RegisterSettled(ok) ==
  /\ loginMounted /\ loginRequest = "register"
  /\ loginRequest' = "none"
  /\ IF ok
       THEN LET nextCount == registerStage(wallNow)
            IN  /\ pageOp' = "registered"
                /\ view' = "verify"
                /\ lsLastRequest' = <<wallNow>>
                /\ lsResendCount' = <<nextCount>>
                /\ resendCount' = nextCount
                /\ cooldown' = Stage(nextCount)
       ELSE /\ pageOp' = "registerFailed"
            /\ UNCHANGED <<view, lsLastRequest, lsResendCount, resendCount, cooldown>>
  /\ UNCHANGED <<wallNow, trafficVars, loginMounted, timerPhase>>
  /\ UNCHANGED <<loopVars, storageVars, requestVars, authVars>>

\* handleResend up to its await
handleResend ==
  /\ loginMounted /\ view = "verify" /\ loginRequest = "none"
  /\ IF resendBlocked(cooldown)
       THEN pageOp' = "resendIgnored" /\ UNCHANGED loginRequest
       ELSE pageOp' = "resend" /\ loginRequest' = "resend"
  /\ UNCHANGED <<wallNow, trafficVars, loginMounted, view, cooldown, resendCount,
                 timerPhase, lsLastRequest, lsResendCount>>
  /\ UNCHANGED <<loopVars, storageVars, requestVars, authVars>>

\* authApi.resendVerification settles
ResendSettled(ok) ==
  /\ loginMounted /\ loginRequest = "resend"
  /\ loginRequest' = "none"
  /\ IF ok
       THEN LET nextCount == resendStage(resendCount)
            IN  /\ pageOp' = "resent"
                /\ lsLastRequest' = <<wallNow>>
                /\ lsResendCount' = <<nextCount>>
                /\ resendCount' = nextCount
                /\ cooldown' = Stage(nextCount)
       ELSE /\ pageOp' = "resendFailed"
            /\ UNCHANGED <<lsLastRequest, lsResendCount, resendCount, cooldown>>
  /\ UNCHANGED <<wallNow, trafficVars, loginMounted, view, timerPhase>>
  /\ UNCHANGED <<loopVars, storageVars, requestVars, authVars>>

\* d milliseconds pass: the interval of a mounted page fires once per second
LoginTimePasses(d) ==
  /\ wallNow + d <= MaxWallLogin
  /\ pageOp' = "clock"
  /\ wallNow' = wallNow + d
  /\ cooldown' =
       IF loginMounted
         THEN ticks(cooldown, ((wallNow + d - timerPhase) \div 1000)
                                - ((wallNow - timerPhase) \div 1000))
         ELSE cooldown
  /\ UNCHANGED <<trafficVars, loginMounted, view, resendCount, loginRequest,
                 timerPhase, lsLastRequest, lsResendCount>>
  /\ UNCHANGED <<loopVars, storageVars, requestVars, authVars>>

NextLogin ==
  \/ LoginMount
  \/ LoginUnmount
  \/ LoginNotVerified
  \/ BackToForm
  \/ handleRegister
  \/ \E ok \in BOOLEAN : RegisterSettled(ok)
  \/ handleResend
  \/ \E ok \in BOOLEAN : ResendSettled(ok)
  \/ \E d \in LoginSteps : LoginTimePasses(d)

SpecLogin == InitTraffic /\ [][NextLogin]_vars

\* ------------------------------------------------ the hooks' views of activity
\* Two components using useAnimationLoop and one using useAnimationPause mount
\* and unmount while the document and the host change; no frame runs.

\* the component using useAnimationPause renders for the first time
PauseRender ==
  /\ pausePhase = "unmounted"
  /\ Commit(pauseRender(Begin("pauseRender")))

\* React runs the effect of useAnimationPause after the first render
PauseEffect ==
  /\ pausePhase = "rendered"
  /\ Commit(pauseEffect(Begin("pauseEffect")))

\* the component using useAnimationPause unmounts
PauseUnmount ==
  /\ pausePhase = "live"
  /\ Commit(pauseCleanup(Begin("pauseUnmount")))

NextViews ==
  \/ \E c \in Hooks : Mount(c)
  \/ \E c \in Hooks : Unmount(c)
  \/ VisibilityChange
  \/ HostDeactivated
  \/ HostActivated
  \/ PauseRender
  \/ PauseEffect
  \/ PauseUnmount

SpecViews == Init /\ [][NextViews]_vars

\* ---------------------------------------------------------------- claims
\* the composite Activity State: document visible and host not deactivated
ActivityState == ~documentHidden /\ tgIsActive
\* the outstanding frame requests of handle k
Regs(k) == {r \in rafQueue : r.h = k}
Live == {k \in Handles : phase[k] = "live"}
Listening(k) == k \in docListeners \cup tgActivatedL \cup tgDeactivatedL

\* C1: a Loop Handle never invokes its callback while the composite Activity
\* State is false (document hidden or host application deactivated).
C1_NoCallbackWhileInactive ==
  \A k \in Handles : fired[k] # None => ActivityState

\* C2: for every Loop Handle, in every reachable state, at most one
\* animation-frame registration is outstanding.
C2_AtMostOneRegistration ==
  \A k \in Handles : Cardinality(Regs(k)) <= 1

\* an 'activated' event has just called start() on a handle that was already
\* running (its marker was not reset), and it still has its one registration
C2_Witness ==
  /\ lastOp = "activated"
  /\ \E k \in Live : k \in tgActivatedL /\ lastTime[k] < now
                     /\ Cardinality(Regs(k)) = 1

\* C3: after construction and after each visibilitychange / activated /
\* deactivated event has been handled, a live handle is Running (flag set, one
\* registration outstanding) exactly when the Activity State is active.
C3_RunningIffActive ==
  lastOp \in {"mount", "deps", "visibilitychange", "activated", "deactivated"}
    => \A k \in Live :
         (animId[k] # 0 /\ Cardinality(Regs(k)) = 1) <=> ActivityState

\* C4: after a Loop Handle is disposed, none of its animation-frame
\* registrations is outstanding and none of its listeners is registered.
C4_DisposalLeavesNothing ==
  \A k \in Handles : phase[k] = "disposed" => Regs(k) = {} /\ ~Listening(k)

\* the first handle was unmounted while it held a registration: it had started,
\* no frame ever ran (so no callback threw), and the Activity State is active
C4_Witness ==
  /\ lastOp = "unmount"
  /\ phase[1] = "disposed"
  /\ tgApi = "full"
  /\ nextRafId > 1
  /\ frameTime < 0
  /\ ActivityState

\* C5: disposal is terminal: a disposed handle stays disposed and Stopped; no
\* later step (event, frame, repeated cleanup) sets its running flag, creates a
\* registration of it or invokes its callback.
C5_DisposalIsTerminal ==
  [][\A k \in Handles :
       phase[k] = "disposed" =>
         /\ phase'[k] = "disposed"
         /\ animId'[k] = 0
         /\ {r \in rafQueue' : r.h = k} = {}
         /\ fired'[k] = None]_vars

\* an 'activated' event arrived, in a visible document, after a handle had
\* been disposed: its listener, if still registered, would have started it
C5_Witness ==
  /\ lastOp = "activated"
  /\ ~documentHidden
  /\ \E k \in Handles : phase[k] = "disposed"

\* C6: start and stop are idempotent.  start on a handle whose running flag is
\* set creates no registration and leaves the marker alone; stop on a handle
\* whose flag is clear changes nothing; start;start = start, stop;stop = stop.
\* Stated of the calls the handlers make ('activated' calls start, 'deactivated'
\* calls stop) and of start and stop applied in every reachable state.
C6_StartStopIdempotent ==
  /\ [](\A k \in Live :
          /\ animId[k] # 0 => start(World, k) = World
          /\ animId[k] = 0 => stop(World, k) = World
          /\ start(start(World, k), k) = start(World, k)
          /\ stop(stop(World, k), k) = stop(World, k))
  /\ [][/\ lastOp' = "activated" =>
             \A k \in tgActivatedL :
               animId[k] # 0 /\ ~docHidden[k] =>
                 /\ animId'[k] = animId[k]
                 /\ lastTime'[k] = lastTime[k]
                 /\ rafQueue' = rafQueue
        /\ lastOp' = "deactivated" =>
             \A k \in tgDeactivatedL :
               animId[k] = 0 =>
                 /\ animId'[k] = 0
                 /\ lastTime'[k] = lastTime[k]
                 /\ {r \in rafQueue' : r.h = k} = {r \in rafQueue : r.h = k}]_vars

\* an 'activated' event has called start() on a running handle
C6_Witness ==
  /\ lastOp = "activated"
  /\ \E k \in Live : k \in tgActivatedL /\ animId[k] # 0 /\ Regs(k) # {}
                     /\ startedAt[k] < now

\* C7 as stated: no two callback invocations of one handle have tick
\* timestamps less than one frame interval apart.
C7_CallsOneIntervalApart ==
  [][\A k \in Handles :
       fired'[k] # None /\ lastCall[k] >= 0 =>
         fired'[k][1] - lastCall[k] >= FRAME_INTERVAL(World)]_vars

\* C7 amended: the rate is bounded from the last start: n invocations since
\* start() take at least n frame intervals of tick time, counted from the time
\* start() recorded (two of them may be less than one interval apart).
C7_RateBoundedSinceStart ==
  \A k \in Live :
    calls[k] > 0 => calls[k] * FRAME_INTERVAL(World) <= lastCall[k] - startedAt[k]

\* two invocations since one start, the second after a drift correction
C7_Witness ==
  \E k \in Live : calls[k] >= 2 /\ fired[k] # None /\ lastTime[k] < fired[k][1]

\* C8: every callback invocation receives delta >= the frame interval, hence
\* never a negative or zero delta.
C8_DeltaAtLeastInterval ==
  \A k \in Handles :
    fired[k] # None => fired[k][2] >= FRAME_INTERVAL(World) /\ fired[k][2] > 0

\* a callback invocation on a frame whose timestamp is behind the clock
C8_Witness ==
  \E k \in Live : fired[k] # None /\ fired[k][1] < now

\* a tick whose timestamp is earlier than the time recorded at start: the
\* handle ticked in the last frame (it holds the newest request) with delta < 0
C8_NegativeDeltaTick ==
  /\ lastOp = "frame"
  /\ \E k \in Live : /\ animId[k] = nextRafId - 1
                     /\ Regs(k) # {}
                     /\ frameTime < lastTime[k]
                     /\ fired[k] = None

\* C9: a tick with elapsed >= interval invokes the callback with (tick time,
\* elapsed) and advances the marker by floor(elapsed / interval) intervals, so
\* that marker <= tick time < marker + interval; any other tick invokes nothing
\* and leaves the marker unchanged.
C9_TickAcceptsOrSkips ==
  [][lastOp' = "frame" =>
       \A k \in Handles :
         LET elapsed == frameTime' - lastTime[k]
             interval == FRAME_INTERVAL(World)
         IN  IF Regs(k) # {} /\ elapsed >= interval
               THEN /\ fired'[k] = <<frameTime', elapsed>>
                    /\ lastTime'[k] = lastTime[k] + (elapsed \div interval) * interval
                    /\ lastTime'[k] > lastTime[k]
                    /\ lastTime'[k] <= frameTime'
                    /\ frameTime' < lastTime'[k] + interval
               ELSE /\ fired'[k] = None
                    /\ lastTime'[k] = lastTime[k]]_vars

\* an accepted tick that advanced the marker by two intervals or more, to a
\* value below the tick time
C9_Witness ==
  \E k \in Live :
    /\ fired[k] # None
    /\ fired[k][2] >= 2 * FRAME_INTERVAL(World)
    /\ lastTime[k] < fired[k][1]

\* "approximately 33 ms": within 10 ms of 33 ms
Approx33(delta) == delta >= Ms(33 - 10) /\ delta <= Ms(33 + 10)
\* "never below 33 ms" (delta in units of 2/3 ms)
AtLeast33(delta) == 2 * delta >= 3 * 33

\* C10 as stated, its delta part: at 30 FPS under 16 ms ticks each delta the
\* callback receives is approximately 33 ms and never below 33 ms.
C10_DeltaAbout33 ==
  \A k \in Handles :
    fired[k] # None => Approx33(fired[k][2]) /\ AtLeast33(fired[k][2])

\* C10 amended: at 30 FPS under 16 ms ticks the callback never fires on two
\* consecutive ticks, fires again on the second or third tick after a call,
\* and each delta is at least the interval (so never below 33 ms) and less
\* than the interval plus one tick period (33.3 ms <= delta < 49.3 ms).
C10_EverySecondTick ==
  /\ [](\A k \in Handles :
          fired[k] # None =>
            /\ AtLeast33(fired[k][2])
            /\ fired[k][2] >= FRAME_INTERVAL(World)
            /\ fired[k][2] < FRAME_INTERVAL(World) + TickPeriod)
  /\ [][\A k \in Handles :
          /\ (lastOp = "frame" /\ fired[k] # None /\ lastOp' = "frame")
               => fired'[k] = None
          /\ (fired'[k] # None /\ lastCall[k] >= 0)
               => fired'[k][1] - lastCall[k] \in {2 * TickPeriod, 3 * TickPeriod}]_vars

\* a call on the third tick after the previous call, with a delta of 48 ms or more
C10_Witness ==
  \E k \in Live :
    /\ calls[k] >= 2
    /\ fired[k] # None
    /\ fired[k][2] >= Ms(48)

\* C11: a handle constructed (at mount, or at re-creation after a dependency
\* change) while the Activity State is false starts Stopped: it holds no frame
\* request and its callback is not invoked until the signal becomes true.
C11_StoppedWhenConstructedInactive ==
  (lastOp \in {"mount", "deps"} /\ ~ActivityState) =>
    \A k \in Live : animId[k] = 0 /\ Regs(k) = {} /\ fired[k] = None

\* C12: when the host activation API is absent (no WebApp object, or one
\* without onEvent/offEvent), no activation subscription exists for any hook,
\* Source B stays true, no handle believes the host inactive, and a live
\* handle is Running exactly when the document is visible.
C12_AbsentHostApi ==
  tgApi # "full" =>
    /\ tgActivatedL = {} /\ tgDeactivatedL = {}
    /\ pauseListeners \subseteq {"visibilitychange"}
    /\ tgIsActive
    /\ ~pTgInactive
    /\ \A k \in Live :
         /\ ~tgInactive[k]
         /\ animId[k] # 0 <=> ~documentHidden
         /\ Regs(k) # {} <=> ~documentHidden

\* without the host API: a handle was disposed, another is live and was just
\* stopped by the document becoming hidden, and useAnimationPause is mounted
C12_Witness ==
  /\ tgApi = "absent"
  /\ lastOp = "visibilitychange"
  /\ documentHidden
  /\ pausePhase = "live"
  /\ \E k \in Live : animId[k] = 0
  /\ \E k \in Handles : phase[k] = "disposed"

\* C13: in every state after useAnimationPause has mounted, the value it
\* returns equals (document hidden OR host deactivated).
C13_PausedIsNotActive ==
  pausePhase = "live" => (paused <=> (documentHidden \/ ~tgIsActive))

\* C14: any two live handles hold the same view of document visibility and of
\* host activation, and are both Running or both Stopped.
C14_HandlesAgree ==
  \A k1, k2 \in Live :
    /\ docHidden[k1] = docHidden[k2]
    /\ tgInactive[k1] = tgInactive[k2]
    /\ animId[k1] # 0 <=> animId[k2] # 0

\* C15: one hook instance never has two live handles; a deps change disposes
\* the old handle (its frame request cancelled, its listeners removed) and
\* leaves exactly one new handle in the constructor's initial state: its view
\* of the document read afresh, tgInactive false, no callback yet, and one
\* frame request with lastTime = now if it started, none otherwise.
C15_TeardownBeforeRecreate ==
  /\ [](\A c \in Hooks : Cardinality(LiveOf(c)) <= 1)
  /\ [][lastOp' = "deps" =>
          \A c \in Hooks : \A old \in LiveOf(c) :
            /\ phase'[old] = "disposed"
            /\ {r \in rafQueue' : r.h = old} = {}
            /\ old \notin docListeners' \cup tgActivatedL' \cup tgDeactivatedL'
            /\ \E new \in Handles \ {old} :
                 /\ phase[new] = "unborn"
                 /\ {k \in Handles : phase'[k] = "live" /\ hook'[k] = c} = {new}
                 /\ docHidden'[new] = documentHidden
                 /\ ~tgInactive'[new]
                 /\ fired'[new] = None /\ calls'[new] = 0
                 /\ new \in docListeners'
                 /\ IF documentHidden
                      THEN /\ animId'[new] = 0 /\ lastTime'[new] = 0
                           /\ {r \in rafQueue' : r.h = new} = {}
                      ELSE /\ animId'[new] = nextRafId /\ lastTime'[new] = now
                           /\ {r \in rafQueue' : r.h = new}
                                = {[id |-> nextRafId, h |-> new]}]_vars

\* a deps change replaced a Running handle by a new Running handle
C15_Witness ==
  /\ lastOp = "deps"
  /\ ActivityState
  /\ \E old \in Handles : phase[old] = "disposed" /\ ~Listening(old)
  /\ \E new \in Live : animId[new] > 1 /\ rafQueue = {[id |-> animId[new], h |-> new]}

\* C16: when the callback raises during a tick, the scheduler does not catch
\* it: the callback was invoked (the marker already advanced), the rest of the
\* tick handler is skipped, so no next frame is requested and animId keeps the
\* id of the tick that ran, and the scheduler enters no error state: its phase,
\* its listeners and its view of the Activity State are unchanged.
C16_CallbackErrorNotCaught ==
  [][\A k \in threw' :
       /\ fired'[k] # None
       /\ fired'[k][1] = frameTime'
       /\ lastTime'[k] = frameTime' - (fired'[k][2] % FRAME_INTERVAL(World))
       /\ animId'[k] = animId[k]
       /\ {r \in rafQueue' : r.h = k} = {}
       /\ phase'[k] = phase[k]
       /\ docHidden'[k] = docHidden[k] /\ tgInactive'[k] = tgInactive[k]
       /\ (k \in docListeners') = (k \in docListeners)
       /\ (k \in tgActivatedL') = (k \in tgActivatedL)
       /\ (k \in tgDeactivatedL') = (k \in tgDeactivatedL)]_vars

\* the callback of a live handle raised in the last tick: the handle still
\* holds the id of that tick and has no frame request
C16_Witness ==
  \E k \in threw :
    /\ lastOp = "frame"
    /\ phase[k] = "live"
    /\ animId[k] # 0
    /\ Regs(k) = {}
    /\ Listening(k)

\* C17, for BackgroundBoxes: the background draws no frame while the Activity
\* State is false (document hidden or host deactivated).
C17_BoxesDrawOnlyWhileActive == boxDrew => ActivityState

\* C18: for each request, its 401 responses trigger at most one token refresh
\* and it is sent again at most once; a 401 on the replay, or a 401 with no
\* stored refresh_token, rejects to the caller with that error and touches
\* nothing else; a settled request is never sent again.
C18_AtMostOneRefreshAndReplay ==
  /\ [](\A r \in Reqs : refreshes[r] <= 1 /\ replays[r] <= refreshes[r])
  /\ [][\A r \in Reqs :
          /\ (/\ reqPc[r] = "sent" /\ reqPc'[r] # "sent"
              /\ lastStatus'[r] = 401
              /\ (replays[r] > 0 \/ lsRefresh = Null))
               => /\ reqPc'[r] = "rejected"
                  /\ rejection'[r] = "error"
                  /\ refreshes'[r] = refreshes[r]
                  /\ replays'[r] = replays[r]
                  /\ <<lsAccess, lsRefresh, lsUser, location>>'
                       = <<lsAccess, lsRefresh, lsUser, location>>
          /\ reqPc[r] \in {"resolved", "rejected"}
               => /\ reqPc'[r] = reqPc[r]
                  /\ refreshes'[r] = refreshes[r]
                  /\ replays'[r] = replays[r]]_vars

\* a request was refused with 401, refreshed the token, was replayed, was
\* refused with 401 again and was rejected to its caller
C18_Witness ==
  \E r \in Reqs :
    /\ refreshes[r] = 1 /\ replays[r] = 1
    /\ lastStatus[r] = 401
    /\ reqPc[r] = "rejected" /\ rejection[r] = "error"

\* C19: when the refresh triggered by a 401 fails, access_token,
\* refresh_token and user are removed from localStorage, the page is sent to
\* /login and the request is rejected with the refresh error; when it
\* succeeds, the request is replayed once with the new access_token, which
\* localStorage already holds.
C19_RefreshOutcome ==
  [][\A r \in Reqs :
       (reqPc[r] = "refreshing" /\ reqPc'[r] # "refreshing") =>
         \/ /\ reqPc'[r] = "rejected"
            /\ rejection'[r] = "refreshError"
            /\ lsAccess' = Null /\ lsRefresh' = Null /\ lsUser' = Null
            /\ location' = "/login"
            /\ replays'[r] = replays[r]
         \/ /\ reqPc'[r] = "sent"
            /\ refreshTok'[r] \in Tokens
            /\ lsAccess' = refreshTok'[r]
            /\ reqAuth'[r] = refreshTok'[r]
            /\ replays'[r] = replays[r] + 1
            /\ lsRefresh' = lsRefresh /\ lsUser' = lsUser
            /\ location' = location]_vars

\* one request was replayed with the token its refresh returned; the refresh
\* of another failed afterwards and emptied the storage
C19_Witness ==
  \E r1, r2 \in Reqs :
    /\ replays[r1] = 1 /\ refreshTok[r1] \in Tokens
    /\ reqAuth[r1] = refreshTok[r1]
    /\ rejection[r2] = "refreshError"
    /\ lsAccess = Null /\ lsRefresh = Null /\ lsUser = Null
    /\ location = "/login"

\* C20: the step in which initialize() finishes leaves isLoading false, and
\* isAuthenticated true exactly when one of its getMe calls succeeded; when a
\* token is missing it finishes at once, unauthenticated, having made no
\* network call; when its refresh path fails, both tokens are out of
\* localStorage and accessToken, refreshToken and user are null.
C20_InitializeOutcome ==
  [][/\ (authOp' \in {"initialize", "getMe", "refresh", "getMeAgain"}
          /\ initPc' = "done")
       => /\ ~isLoading'
          /\ isAuthenticated' <=> initGetMeOk'
          /\ initGetMeOk' => /\ authOp' \in {"getMe", "getMeAgain"}
                             /\ user' # Null
                             /\ accessToken' = initAccess'
                             /\ refreshToken' = initRefresh'
          /\ (authOp' \in {"refresh", "getMeAgain"} /\ ~initGetMeOk')
               => /\ lsAccess' = Null /\ lsRefresh' = Null
                  /\ accessToken' = Null /\ refreshToken' = Null /\ user' = Null
     /\ (authOp' = "initialize" /\ (lsAccess = Null \/ lsRefresh = Null))
       => /\ initPc' = "done"
          /\ initCalls' = 0
          /\ ~isAuthenticated']_vars

\* an initialize() whose first getMe failed, whose refresh succeeded and whose
\* second getMe failed: three network calls, tokens removed, not loading
C20_Witness ==
  /\ authOp = "getMeAgain"
  /\ initPc = "done"
  /\ initCalls > 2
  /\ ~initGetMeOk
  /\ ~isLoading /\ ~isAuthenticated
  /\ lsAccess = Null /\ accessToken = Null

\* C25: between platform ticks, the running flag of a live handle
\* (animId # 0) is true exactly when one frame request of that handle is
\* outstanding, also after a tick in which the callback raised.
C25_RunningFlagMatchesRegistration ==
  \A k \in Live : (animId[k] # 0) <=> (Cardinality(Regs(k)) = 1)

\* C26: once a login action has completed, and until logout() is called, the
\* store is authenticated and both tokens are in localStorage, whatever the
\* initialize() started at module load does when it completes.
C26_LoginSurvivesInitialize ==
  loggedIn => (isAuthenticated /\ lsAccess # Null /\ lsRefresh # Null)

\* C21: on a mounted Subscription page the auto-refresh effect sends at most
\* one request per mount; when it runs while traffic_refresh_ts is younger
\* than 30 seconds it sends none and sets the cooldown to the remaining time
\* in whole seconds, rounded up.
C21_AutoRefreshOncePerMount ==
  /\ [](autoRefreshes <= 1)
  /\ [][(pageOp' \in {"subMount", "loaded", "refetched"}
           /\ lsTrafficTs # <<>> /\ wallNow - lsTrafficTs[1] < 30 * 1000)
          => /\ autoRefreshes' = (IF pageOp' = "subMount" THEN 0 ELSE autoRefreshes)
             /\ isPending' = (IF pageOp' = "subMount" THEN FALSE ELSE isPending)
             /\ (hasAutoRefreshed' /\ (pageOp' = "subMount" \/ ~hasAutoRefreshed))
                  => LET remainingMs == 30 * 1000 - (wallNow - lsTrafficTs[1])
                     IN  /\ trafficRefreshCooldown' * 1000 >= remainingMs
                         /\ (trafficRefreshCooldown' - 1) * 1000 < remainingMs]_vars

\* the page was mounted a fraction of a second after a refresh of an earlier
\* mount: no request, and a cooldown rounded up to the full 30 seconds
C21_Witness ==
  /\ pageOp = "subMount"
  /\ hasAutoRefreshed
  /\ lsTrafficTs # <<>> /\ wallNow - lsTrafficTs[1] = 500
  /\ trafficRefreshCooldown = 30
  /\ ~isPending /\ autoRefreshes = 0

\* C22: the cooldown is never negative; a timer tick lowers a positive
\* cooldown by one, one second after it was last changed, and the timer stops
\* at 0; a successful refresh sets it to retry_after_seconds when rate
\* limited, else to 30, a positive value; a manual refresh is issued only
\* with the cooldown at 0 and no refresh pending.
C22_CooldownCountsDown ==
  /\ [](/\ trafficRefreshCooldown >= 0
        /\ subMounted => ((timerDue # <<>>) <=> trafficRefreshCooldown > 0))
  /\ [][/\ pageOp' = "tick"
             => /\ trafficRefreshCooldown > 0
                /\ trafficRefreshCooldown' = trafficRefreshCooldown - 1
                /\ wallNow = timerDue[1]
                /\ timerDue' = IF trafficRefreshCooldown' > 0
                                 THEN <<wallNow + 1000>> ELSE <<>>
        /\ pageOp' = "success"
             => /\ trafficRefreshCooldown' > 0
                /\ trafficRefreshCooldown' =
                     IF lastData'[1] /\ lastData'[2] > 0 THEN lastData'[2] ELSE 30
        /\ pageOp' = "manual"
             => /\ trafficRefreshCooldown = 0
                /\ ~isPending
                /\ isPending']_vars

\* a rate-limited success set the cooldown to retry_after_seconds and the
\* timer has counted it down to 0
C22_Witness ==
  /\ pageOp = "tick"
  /\ trafficRefreshCooldown = 0
  /\ timerDue = <<>>
  /\ lsTrafficTs # <<>> /\ wallNow - lsTrafficTs[1] = 5 * 1000
  /\ ~isPending

\* a verification email was requested before, less than RESEND_RESET_TIME ago
InResendWindow ==
  /\ lsLastRequest # <<>> /\ lsResendCount # <<>>
  /\ wallNow - lsLastRequest[1] < RESEND_RESET_TIME

\* a verification email was requested before, more than an hour ago
ResendWindowOver ==
  /\ lsLastRequest # <<>> /\ lsResendCount # <<>>
  /\ wallNow - lsLastRequest[1] > RESEND_RESET_TIME

C24_EscalationResetAfterHour ==
  [][pageOp' \in {"registered", "resent"}
       => /\ ResendWindowOver => (resendCount' = 0 /\ cooldown' = Stage(0))
          /\ InResendWindow
               => resendCount' = IF lsResendCount[1] + 1 < LastStage
                                   THEN lsResendCount[1] + 1 ELSE LastStage]_vars

====
